---- MODULE Spec2Model ----
(***************************************************************************)
(* The cart store of the cafe point-of-sale front end                      *)
(* (pos_frontend/src/state/cartContext.js): the reducer, its validation,   *)
(* the session-storage adapter and the provider that mounts the store and  *)
(* persists every new snapshot.                                            *)
(***************************************************************************)
EXTENDS Integers, Sequences, FiniteSets, Bags, TLC

VARIABLES
  state,           \* the reducer state of CartProvider: [items |-> <<line items>>]
  sessionStorage,  \* what sessionStorage holds under STORAGE_KEY
  raised,          \* an exception escaped the provider (the React tree is gone)
  added,           \* ghost: quantities added per normalized id by a run of addItem
                   \*        calls that started on an empty cart
  storageAccepts,  \* environment: sessionStorage.setItem succeeds (no quota or
                   \*        security error) when it is called now
  calc,            \* a call of computeTaxCents and of the totals built on it:
                   \*        its arguments and, once it returned, its results
  isSupabaseConfigured,  \* environment: both REACT_APP_SUPABASE_* variables are set
  route,           \* the page shown: "orders" (MenuGrid, CurrentOrder),
                   \*        "checkout" (CheckoutPanel) or "sales" (SalesDashboard)
  panel,           \* the state of the mounted CheckoutPanel: tender, cash
                   \*        received, isSubmitting
  submissions,     \* the calls of handleSubmit that reached the backend: what
                   \*        each captured from its render and where it stands
  backend,         \* the orders and order_items tables, and whether any
                   \*        request was ever issued to the backend
  feedback,        \* what the user was last shown about a submission
  table,           \* the state of a mounted useSupabaseTable hook
  menu,            \* the state of the mounted MenuGrid
  dashboard        \* the state of the mounted SalesDashboard and its fetches

cartVars == <<state, sessionStorage, raised, added, storageAccepts>>
checkoutVars == <<route, panel, submissions, backend, feedback>>
viewVars == <<table, menu, dashboard>>

vars == <<state, sessionStorage, raised, added, storageAccepts, calc,
          isSupabaseConfigured, route, panel, submissions, backend, feedback,
          table, menu, dashboard>>

---------------------------------------------------------------------------
(* Bounds of the model *)

\* Largest quantity an item is driven to by addItem / increment.
MaxQuantity == 3

\* Number of further decrements tried on an id that has left the cart.
MaxExtraDecrements == 2

\* Largest subtotal, in cents, handed to computeTaxCents on its own.
MaxSubtotalCents == 500

\* Number of submissions of one run of the checkout: those that are awaiting
\* the backend or left an orders row.
MaxSubmissions == 1

\* The same, in the runs where the cashier submits again.
MaxResubmissions == 2

\* Largest itemsCount the cart is driven to while a checkout is followed.
MaxCheckoutQuantity == 2

\* Number of fetches of the sales dashboard that await the backend together.
MaxFetches == 2

---------------------------------------------------------------------------
(* JavaScript values.  A value carries its typeof; a number is kept in     *)
(* tenths so that a non-integer (4.5) is a value too.                      *)

Undefined == [type |-> "undefined"]
Null == [type |-> "null"]
Str(s) == [type |-> "string", text |-> s]
Num(n) == [type |-> "number", tenths |-> 10 * n]
Frac(n) == [type |-> "number", tenths |-> 10 * n + 5]

Digits == <<"1", "2", "3", "4", "5", "6", "7", "8", "9">>

\* String(v) for the values an id can be.
String(v) ==
  CASE v.type = "string" -> v.text
    [] v.type = "number" ->
         IF v.tenths = 0 THEN "0"
         ELSE IF v.tenths % 10 = 0 /\ v.tenths \div 10 \in 1..9
              THEN Digits[v.tenths \div 10]
              ELSE "NaN"
    [] v.type = "undefined" -> "undefined"
    [] v.type = "null" -> "null"

\* Number.isInteger(v)
IsInteger(v) == v.type = "number" /\ v.tenths % 10 = 0

\* the integer an integer-valued number is
IntOf(v) == v.tenths \div 10

\* typeof v === 'string' && v.length > 0
IsNonEmptyString(v) == v.type = "string" /\ v.text # ""

\* JavaScript truthiness of a note argument (undefined, null and '' are falsy)
Truthy(v) == v.type = "string" /\ v.text # ""

---------------------------------------------------------------------------
(* Input domains *)

ItemIds == {Str("a"), Str("1"), Num(1)}
IdArgs == ItemIds \cup {Str("zz"), Undefined}
Names == {"Latte"}
Prices == {0, 450}
Quantities == {1, 2}
CandidateNotes == {Undefined, Str(""), Str("x")}
NoteArgs == {Undefined, Str(""), Str("x")}

Candidate(id, name, price, qty, notes) ==
  [type |-> "object", id |-> id, name |-> name, unit_price_cents |-> price,
   quantity |-> qty, notes |-> notes]

ValidCandidates ==
  {Candidate(id, Str(n), Num(p), Num(q), nt) :
     id \in ItemIds, n \in Names, p \in Prices, q \in Quantities,
     nt \in CandidateNotes}

\* One candidate per way of failing validateItem.
InvalidCandidates ==
  { Null, Undefined, Str("a"),
    Candidate(Undefined, Str("Latte"), Num(450), Num(1), Undefined),
    Candidate(Null, Str("Latte"), Num(450), Num(1), Undefined),
    Candidate(Str("a"), Undefined, Num(450), Num(1), Undefined),
    Candidate(Str("a"), Num(1), Num(450), Num(1), Undefined),
    Candidate(Str("a"), Str("Latte"), Num(-1), Num(1), Undefined),
    Candidate(Str("a"), Str("Latte"), Frac(4), Num(1), Undefined),
    Candidate(Str("a"), Str("Latte"), Undefined, Num(1), Undefined),
    Candidate(Str("a"), Str("Latte"), Str("450"), Num(1), Undefined),
    Candidate(Str("a"), Str("Latte"), Num(450), Num(0), Undefined),
    Candidate(Str("a"), Str("Latte"), Num(450), Num(-1), Str("x")),
    Candidate(Str("a"), Str("Latte"), Num(450), Frac(1), Undefined),
    Candidate(Str("a"), Str("Latte"), Num(450), Undefined, Undefined),
    Candidate(Str("1"), Str("Mocha"), Num(0), Str("2"), Str("x")) }

Candidates == ValidCandidates \cup InvalidCandidates

---------------------------------------------------------------------------
(* Line items and the reducer state *)

\* A stored line item: the own properties of a validated candidate.
LineItem(id, name, price, qty, notes) ==
  [id |-> id, name |-> name, unit_price_cents |-> price, quantity |-> qty,
   notes |-> notes]

\* { ...incoming } of a validated candidate
CopyOf(incoming) ==
  LineItem(incoming.id, incoming.name.text, IntOf(incoming.unit_price_cents),
           IntOf(incoming.quantity), incoming.notes)

initialState == [items |-> <<>>]

\* the ACTIONS table (ACTIONS is a reserved word of TLA+)
ACTION_TYPES ==
  [ADD_ITEM |-> "ADD_ITEM", REMOVE_ITEM |-> "REMOVE_ITEM",
   INCREMENT |-> "INCREMENT", DECREMENT |-> "DECREMENT", CLEAR |-> "CLEAR",
   SET_NOTE |-> "SET_NOTE"]

validateItem_NoQuantityCheck(item) ==
  IF item.type # "object" THEN FALSE
  ELSE /\ item.id.type = "string" \/ item.id.type = "number"
       /\ item.name.type = "string"
       /\ IsInteger(item.unit_price_cents) /\ item.unit_price_cents.tenths >= 0
       /\ IsInteger(item.quantity)

validateItem(item) ==
  IF item.type # "object" THEN FALSE
  ELSE LET hasId == item.id.type = "string" \/ item.id.type = "number"
           hasName == item.name.type = "string"
           hasPrice == IsInteger(item.unit_price_cents)
                       /\ item.unit_price_cents.tenths >= 0
           hasQty == IsInteger(item.quantity) /\ item.quantity.tenths > 0
       IN  hasId /\ hasName /\ hasPrice /\ hasQty

HasNull(items) == \E j \in 1..Len(items) : items[j] = Null

\* the indexes whose entry has the string-normalized id s
Matches(items, s) ==
  {i \in 1..Len(items) : items[i] # Null /\ String(items[i].id) = s}

\* items.findIndex((i) => String(i.id) === s), 1-based; 0 is JavaScript's -1
findIndex(items, s) ==
  IF Matches(items, s) = {} THEN 0
  ELSE CHOOSE i \in Matches(items, s) : \A j \in Matches(items, s) : i <= j

\* findIndex reads i.id of every entry up to the first match: a null entry
\* there is a TypeError
findIndexThrows(items, s) ==
  LET idx == findIndex(items, s)
  IN  \E j \in 1..(IF idx = 0 THEN Len(items) ELSE idx - 1) : items[j] = Null

filterOut_Keep(items, s) == SelectSeq(items, LAMBDA i : String(i.id) = s)

\* items.filter((i) => String(i.id) !== s); it reads every entry
filterOut(items, s) == SelectSeq(items, LAMBDA i : String(i.id) # s)

\* What a call of the reducer yields: it threw, it returned the state object it
\* was given (same), or it returned a new object.
Threw(st) == [threw |-> TRUE, same |-> TRUE, state |-> st]
Same(st) == [threw |-> FALSE, same |-> TRUE, state |-> st]
New(items) == [threw |-> FALSE, same |-> FALSE, state |-> [items |-> items]]

Action(type, payload) == [type |-> type, payload |-> payload]

\* case ACTION_TYPES.ADD_ITEM, merge branch: notes only if provided
mergedNotes_Overwrite(existing, incoming) == incoming.notes

mergedNotes(existing, incoming) ==
  IF IsNonEmptyString(incoming.notes) THEN incoming.notes ELSE existing.notes

mergedQuantity_Overwrite(existing, incoming) == IntOf(incoming.quantity)

mergedQuantity(existing, incoming) ==
  existing.quantity + IntOf(incoming.quantity)

mergedPrice_Incoming(existing, incoming) == IntOf(incoming.unit_price_cents)

\* both arms of the conditional yield the existing price
mergedPrice(existing, incoming) ==
  IF IsInteger(incoming.unit_price_cents) /\ incoming.unit_price_cents.tenths >= 0
  THEN existing.unit_price_cents
  ELSE existing.unit_price_cents

\* the entry put at idx
mergedItem(existing, incoming) ==
  [existing EXCEPT !.quantity = mergedQuantity(existing, incoming),
                   !.unit_price_cents = mergedPrice(existing, incoming),
                   !.notes = mergedNotes(existing, incoming)]

appendItem_First(items, incoming) == <<CopyOf(incoming)>> \o items

\* [...state.items, { ...incoming }]
appendItem(items, incoming) == Append(items, CopyOf(incoming))

reduceAddItem(st, incoming) ==
  IF ~validateItem(incoming) THEN Same(st)
  ELSE IF findIndexThrows(st.items, String(incoming.id)) THEN Threw(st)
  ELSE LET idx == findIndex(st.items, String(incoming.id))
       IN  IF idx > 0
           THEN New([st.items EXCEPT ![idx] = mergedItem(st.items[idx], incoming)])
           ELSE New(appendItem(st.items, incoming))

reduceRemoveItem(st, id) ==
  IF HasNull(st.items) THEN Threw(st)
  ELSE LET next == filterOut(st.items, String(id))
       IN  IF Len(next) = Len(st.items) THEN Same(st) ELSE New(next)

incrementedItem_NotesLost(item) ==
  [item EXCEPT !.quantity = @ + 1, !.notes = Undefined]

\* { ...nextItems[idx], quantity: nextItems[idx].quantity + 1 }
incrementedItem(item) == [item EXCEPT !.quantity = @ + 1]

reduceIncrement(st, id) ==
  IF findIndexThrows(st.items, String(id)) THEN Threw(st)
  ELSE LET idx == findIndex(st.items, String(id))
       IN  IF idx = 0 THEN Same(st)
           ELSE New([st.items EXCEPT ![idx] = incrementedItem(st.items[idx])])

dropsToZero_Below(item) == item.quantity < 1

dropsToZero_Always(item) == TRUE

\* item.quantity <= 1: remove when dropping to zero
dropsToZero(item) == item.quantity <= 1

reduceDecrement(st, id) ==
  IF findIndexThrows(st.items, String(id)) THEN Threw(st)
  ELSE LET idx == findIndex(st.items, String(id))
       IN  IF idx = 0 THEN Same(st)
           ELSE IF dropsToZero(st.items[idx])
                THEN IF HasNull(st.items) THEN Threw(st)
                     ELSE New(filterOut(st.items, String(id)))
                ELSE New([st.items EXCEPT ![idx].quantity = @ - 1])

reduceClear_AlwaysNew(st) == New(<<>>)

reduceClear(st) ==
  IF Len(st.items) = 0 THEN Same(st) ELSE New(<<>>)

noteOrEmpty_Raw(note) == note

\* note || ''
noteOrEmpty(note) == IF Truthy(note) THEN note ELSE Str("")

\* payload is { id, note }
reduceSetNote(st, payload) ==
  IF findIndexThrows(st.items, String(payload.id)) THEN Threw(st)
  ELSE LET idx == findIndex(st.items, String(payload.id))
       IN  IF idx = 0 THEN Same(st)
           ELSE New([st.items EXCEPT ![idx].notes = noteOrEmpty(payload.note)])

cartReducer(st, action) ==
  CASE action.type = ACTION_TYPES.ADD_ITEM -> reduceAddItem(st, action.payload)
    [] action.type = ACTION_TYPES.REMOVE_ITEM -> reduceRemoveItem(st, action.payload)
    [] action.type = ACTION_TYPES.INCREMENT -> reduceIncrement(st, action.payload)
    [] action.type = ACTION_TYPES.DECREMENT -> reduceDecrement(st, action.payload)
    [] action.type = ACTION_TYPES.CLEAR -> reduceClear(st)
    [] action.type = ACTION_TYPES.SET_NOTE -> reduceSetNote(st, action.payload)
    [] OTHER -> Same(st)

---------------------------------------------------------------------------
(* Cents math and tax *)

lineCents_PriceOnly(it) == it.unit_price_cents

\* (it.unit_price_cents || 0) * (it.quantity || 0); n || 0 is n for a number
lineCents(it) == it.unit_price_cents * it.quantity

\* the loop of sumLineItemsCents: total += line
RECURSIVE sumFrom(_, _, _)
sumFrom(items, i, total) ==
  IF i > Len(items) THEN total
  ELSE sumFrom(items, i + 1, total + lineCents(items[i]))

sumLineItemsCents(items) == sumFrom(items, 1, 0)

\* 887.5 basis points, in tenths of a basis point
DEFAULT_TAX_RATE_BPS == Frac(887)
BPS_SCALE == 10000

\* Math.round(n / d) for d > 0: the nearest integer, a half going up
MathRound(n, d) == (2 * n + d) \div (2 * d)

computeTaxCents_RoundedOnce(subtotalCents, rateBps) ==
  MathRound(subtotalCents * rateBps.tenths, BPS_SCALE * 10)

computeTaxCents(subtotalCents, rateBps) ==
  LET scaledSubtotal == subtotalCents * 10
      \* (scaledSubtotal * rateBps) / BPS_SCALE, rateBps being rateBps.tenths / 10
      taxTimes10 == MathRound(scaledSubtotal * rateBps.tenths, BPS_SCALE * 10)
  IN  MathRound(taxTimes10, 10)

\* the selectors of CartProvider
selectors(st) ==
  LET subtotalCents == sumLineItemsCents(st.items)
      taxCents == computeTaxCents(subtotalCents, DEFAULT_TAX_RATE_BPS)
  IN  [subtotalCents |-> subtotalCents, taxCents |-> taxCents,
       totalCents |-> subtotalCents + taxCents]

\* computing the selectors reads it.unit_price_cents of every entry: a null
\* entry is a TypeError while CartProvider renders
selectorsThrow(st) == HasNull(st.items)

---------------------------------------------------------------------------
(* Session storage *)

STORAGE_KEY == "fc_pos_cart_v1"

\* What the storage area holds under STORAGE_KEY: nothing, or a text.  A text
\* is the empty string, some text that is no JSON, or the JSON text of a value.
NoKey == [kind |-> "absent"]
\* the storage area is disabled: every access to it throws
Unavailable == [kind |-> "unavailable"]
EmptyText == [kind |-> "text", raw |-> "empty"]
GarbageText == [kind |-> "text", raw |-> "garbage"]
JsonText(value) == [kind |-> "text", raw |-> "json", value |-> value]

JsonArray(elems) == [type |-> "array", elems |-> elems]
JsonObject(items) == [type |-> "object", items |-> items]

jsonOfItem_NotesDropped(e) ==
  IF e = Null THEN Null
  ELSE [id |-> e.id, name |-> e.name,
        unit_price_cents |-> e.unit_price_cents, quantity |-> e.quantity]

\* JSON.stringify drops a property whose value is undefined
jsonOfItem(e) ==
  IF e = Null THEN Null
  ELSE IF e.notes = Undefined
       THEN [id |-> e.id, name |-> e.name,
             unit_price_cents |-> e.unit_price_cents, quantity |-> e.quantity]
       ELSE e

\* reading a property the parsed object lacks yields undefined
itemOfJson(j) ==
  IF j = Null THEN Null
  ELSE IF "notes" \in DOMAIN j THEN j
       ELSE LineItem(j.id, j.name, j.unit_price_cents, j.quantity, Undefined)

RECURSIVE mapJsonOfItem(_)
mapJsonOfItem(items) ==
  IF items = <<>> THEN <<>>
  ELSE <<jsonOfItem(Head(items))>> \o mapJsonOfItem(Tail(items))

RECURSIVE mapItemOfJson(_)
mapItemOfJson(elems) ==
  IF elems = <<>> THEN <<>>
  ELSE <<itemOfJson(Head(elems))>> \o mapItemOfJson(Tail(elems))

\* JSON.stringify(state)
stringify(st) == JsonText(JsonObject(JsonArray(mapJsonOfItem(st.items))))

\* readCartFromSession: the saved state, or Null
readCartFromSession(stored) ==
  IF stored = Unavailable THEN Null
  ELSE IF stored = NoKey \/ stored.raw = "empty" THEN Null
  ELSE IF stored.raw = "garbage" THEN Null
  ELSE LET parsed == stored.value
       IN  IF parsed.type # "object" THEN Null
           ELSE IF parsed.items.type # "array" THEN Null
           ELSE [items |-> mapItemOfJson(parsed.items.elems)]

\* sessionStorage.setItem(STORAGE_KEY, text): whether it threw, and what the
\* storage holds afterwards
setItem(stored, text, accepts) ==
  IF stored = Unavailable \/ ~accepts THEN [threw |-> TRUE, stored |-> stored]
  ELSE [threw |-> FALSE, stored |-> text]

writeCartToSession_NoCatch(stored, st, accepts) ==
  setItem(stored, stringify(st), accepts)

writeCartToSession_Skipped(stored, st, accepts) ==
  [threw |-> FALSE, stored |-> stored]

\* writeCartToSession: try { setItem } catch { ignore }
writeCartToSession(stored, st, accepts) ==
  [threw |-> FALSE, stored |-> setItem(stored, stringify(st), accepts).stored]

\* the reducer initializer of CartProvider: saved || base
initializer(stored) ==
  LET saved == readCartFromSession(stored)
  IN  IF saved = Null THEN initialState ELSE saved

---------------------------------------------------------------------------
(* What the storage may hold when the provider mounts for the first time:  *)
(* the key is absent, or holds a text this program or any other script of  *)
(* the origin left there.                                                  *)

StoredLatte == [id |-> Str("a"), name |-> "Latte", unit_price_cents |-> 450,
                quantity |-> 1]
StoredMocha == LineItem(Num(1), "Mocha", 0, 2, Str("x"))

StoredItemLists ==
  { <<>>,
    <<StoredLatte>>,
    <<StoredLatte, StoredMocha>>,
    \* the same id twice
    <<StoredLatte, [StoredLatte EXCEPT !.quantity = 2, !.unit_price_cents = 0]>>,
    \* two ids with the same string form
    <<StoredMocha, [StoredMocha EXCEPT !.id = Str("1"), !.quantity = 1]>>,
    \* a quantity of 0
    <<[StoredLatte EXCEPT !.quantity = 0]>>,
    \* a negative quantity
    <<[StoredLatte EXCEPT !.quantity = -1]>>,
    \* a null entry
    <<Null>>,
    <<StoredLatte, Null>> }

InitialStorage ==
  { NoKey, EmptyText, GarbageText,
    JsonText(Null), JsonText(Num(5)),
    JsonText(JsonObject(Undefined)), JsonText(JsonObject(Str("x"))) }
  \cup {JsonText(JsonObject(JsonArray(l))) : l \in StoredItemLists}

---------------------------------------------------------------------------
(* Ghost bookkeeping *)

NoneAdded == [id \in ItemIds |-> 0]

\* after a mount or a new snapshot st that no addItem produced
addedAfterOther(st) ==
  [ok |-> st.items = <<>>, qty |-> NoneAdded]

addedAfter(action, r) ==
  IF r.threw \/ r.same THEN added
  ELSE IF action.type = ACTION_TYPES.ADD_ITEM
       THEN IF added.ok
            THEN [added EXCEPT !.qty[action.payload.id] =
                                 @ + IntOf(action.payload.quantity)]
            ELSE added
       ELSE addedAfterOther(r.state)

---------------------------------------------------------------------------
(* The provider *)

QuantityBounded(st) ==
  \A i \in 1..Len(st.items) :
     st.items[i] = Null \/ st.items[i].quantity <= MaxQuantity

effectRuns_EveryDispatch(r) == ~r.threw /\ ~selectorsThrow(r.state)

\* useEffect(..., [state]): the persist effect runs after a render that
\* committed, and a dispatch renders only when the reducer returned another
\* object than the state it was given
effectRuns(r) == ~r.threw /\ ~r.same /\ ~selectorsThrow(r.state)

\* what follows the reducer result r: the render of the new state and the
\* persist effect; whether an exception escaped and what the storage holds
afterRender(r, stored, accepts) ==
  LET w == IF effectRuns(r) THEN writeCartToSession(stored, r.state, accepts)
           ELSE [threw |-> FALSE, stored |-> stored]
  IN  [raised |-> (r.threw \/ (~r.same /\ selectorsThrow(r.state)) \/ w.threw),
       stored |-> w.stored]

\* CartProvider mounts on the storage content `stored`: the initializer, the
\* first render (selectors) and, when that did not throw, the persist effect.
mounted(stored, accepts) ==
  LET st == initializer(stored)
      m == afterRender(New(st.items), stored, accepts)
  IN  [state |-> st, raised |-> m.raised, stored |-> m.stored]

Mount(stored) ==
  LET m == mounted(stored, storageAccepts)
  IN  /\ state' = m.state
      /\ raised' = m.raised
      /\ sessionStorage' = m.stored
      /\ added' = addedAfterOther(m.state)
      /\ UNCHANGED <<storageAccepts, calc, isSupabaseConfigured, checkoutVars,
                     viewVars>>

\* no call of computeTaxCents is being followed
NoCall == [status |-> "none", subtotalCents |-> 0, rateBps |-> DEFAULT_TAX_RATE_BPS,
           taxCents |-> 0, totalCents |-> 0]

\* the page is opened on the storage content `stored`
StartsOn(stored, accepts) ==
  LET m == mounted(stored, accepts)
  IN  /\ state = m.state
      /\ raised = m.raised
      /\ sessionStorage = m.stored
      /\ added = addedAfterOther(m.state)
      /\ storageAccepts = accepts

\* a component that is not mounted holds no state
NotMounted == [mounted |-> FALSE]

\* the backend before anything was written to it or asked of it
EmptyBackend == [orders |-> <<>>, order_items |-> <<>>, requested |-> FALSE]

\* the status bar shows nothing of a submission
NoFeedback == [shown |-> "none"]

\* the page is opened on /orders: no CheckoutPanel, hook or dashboard is
\* mounted, nothing was submitted
OnOrdersPage ==
  /\ route = "orders"
  /\ panel = NotMounted
  /\ submissions = EmptyBag
  /\ backend = EmptyBackend
  /\ feedback = NoFeedback
  /\ table = NotMounted
  /\ menu = NotMounted
  /\ dashboard = NotMounted

Init ==
  /\ \E stored \in InitialStorage : StartsOn(stored, TRUE)
  /\ calc = NoCall
  /\ isSupabaseConfigured = TRUE
  /\ OnOrdersPage

\* dispatch(action): the reducer, then the render of the new state and the
\* persist effect, which runs only when the state object changed.
dispatched(st, stored, accepts, action) ==
  LET r == cartReducer(st, action)
      d == afterRender(r, stored, accepts)
  IN  [r |-> r, raised |-> d.raised, stored |-> d.stored]

\* what a dispatch does to the store
DispatchCart(action) ==
  /\ ~raised
  /\ LET d == dispatched(state, sessionStorage, storageAccepts, action)
     IN  /\ QuantityBounded(d.r.state)
         /\ state' = d.r.state
         /\ raised' = d.raised
         /\ sessionStorage' = d.stored
         /\ added' = addedAfter(action, d.r)
  /\ UNCHANGED storageAccepts

Dispatch(action) ==
  /\ DispatchCart(action)
  /\ UNCHANGED <<calc, isSupabaseConfigured, checkoutVars, viewVars>>

addItem == \E item \in Candidates : Dispatch(Action(ACTION_TYPES.ADD_ITEM, item))

removeItem == \E id \in IdArgs : Dispatch(Action(ACTION_TYPES.REMOVE_ITEM, id))

increment == \E id \in IdArgs : Dispatch(Action(ACTION_TYPES.INCREMENT, id))

decrement == \E id \in IdArgs : Dispatch(Action(ACTION_TYPES.DECREMENT, id))

clear == Dispatch(Action(ACTION_TYPES.CLEAR, Undefined))

setItemNote ==
  \E id \in IdArgs, note \in NoteArgs :
     Dispatch(Action(ACTION_TYPES.SET_NOTE, [id |-> id, note |-> note]))

\* useCartDispatch hands out the raw dispatch: an action of a type the reducer
\* does not know
dispatchUnknown == Dispatch(Action("UNKNOWN", Undefined))

\* the tab is reloaded: the provider mounts again on what the storage holds
reload == Mount(sessionStorage)

Next ==
  \/ addItem
  \/ removeItem
  \/ increment
  \/ decrement
  \/ clear
  \/ setItemNote
  \/ dispatchUnknown
  \/ reload

Spec == Init /\ [][Next]_vars

---------------------------------------------------------------------------
(* Vocabulary of the properties.  A property about an operation is stated  *)
(* on every reachable state in which the provider is mounted, for every    *)
(* action that can be dispatched there.                                    *)

DispatchableActions ==
  {Action(ACTION_TYPES.ADD_ITEM, c) : c \in Candidates}
  \cup {Action(t, id) :
          t \in {ACTION_TYPES.REMOVE_ITEM, ACTION_TYPES.INCREMENT,
                 ACTION_TYPES.DECREMENT},
          id \in IdArgs}
  \cup {Action(ACTION_TYPES.SET_NOTE, [id |-> id, note |-> note]) :
          id \in IdArgs, note \in NoteArgs}
  \cup {Action(ACTION_TYPES.CLEAR, Undefined), Action("UNKNOWN", Undefined)}

\* the first position, from the left, of an entry whose id has the string
\* form s; 0 when there is none
RECURSIVE FirstIndexFrom(_, _, _)
FirstIndexFrom(items, s, i) ==
  IF i > Len(items) THEN 0
  ELSE IF String(items[i].id) = s THEN i
  ELSE FirstIndexFrom(items, s, i + 1)

FirstIndexOf(items, s) == FirstIndexFrom(items, s, 1)

\* the items a dispatch of action a would leave
ItemsAfter(a) == cartReducer(state, a).state.items

AddOf(c) == Action(ACTION_TYPES.ADD_ITEM, c)

---------------------------------------------------------------------------
\* C1: in every reachable state of a mounted cart there is at most one line
\* item per string-normalized id and every item has quantity >= 1.
C1_OneItemPerIdAndPositiveQuantity ==
  ~raised =>
    /\ \A i, j \in 1..Len(state.items) :
         i # j => String(state.items[i].id) # String(state.items[j].id)
    /\ \A i \in 1..Len(state.items) : state.items[i].quantity >= 1

---------------------------------------------------------------------------
(* C2 *)

AddedIds == {id \in ItemIds : added.qty[id] > 0}

RECURSIVE SumAdded(_)
SumAdded(ids) ==
  IF ids = {} THEN 0
  ELSE LET id == CHOOSE x \in ids : TRUE
       IN  added.qty[id] + SumAdded(ids \ {id})

\* the total quantity added under the ids whose string form is s
AddedUnder(s) == SumAdded({id \in ItemIds : String(id) = s})

\* C2 as stated: after valid addItem calls on an empty cart the number of
\* items is the number of distinct ids added and each id's item holds the sum
\* of the quantities added under that id.
C2_CountAndSumsPerId ==
  (~raised /\ added.ok) =>
    /\ Len(state.items) = Cardinality(AddedIds)
    /\ \A id \in AddedIds :
         \E i \in 1..Len(state.items) :
            /\ state.items[i].id = id
            /\ state.items[i].quantity = added.qty[id]

\* C2 amended: after valid addItem calls on an empty cart the number of items
\* is the number of distinct string-normalized ids added and each item's
\* quantity is the sum of the quantities added under the ids with its string
\* form.
C2_CountAndSumsPerNormalizedId ==
  (~raised /\ added.ok) =>
    LET forms == {String(id) : id \in AddedIds}
    IN  /\ Len(state.items) = Cardinality(forms)
        /\ \A s \in forms :
             \E i \in 1..Len(state.items) :
                /\ String(state.items[i].id) = s
                /\ state.items[i].quantity = AddedUnder(s)

C2_Witness ==
  /\ ~raised
  /\ added.ok
  /\ added.qty[Str("a")] = 2
  /\ added.qty[Num(1)] > 0
  /\ added.qty[Str("1")] > 0
  /\ Len(state.items) = 2

---------------------------------------------------------------------------
\* C3: addItem under the id of an item in the cart keeps that item's unit
\* price whatever price the candidate carries; a unit price enters the cart
\* only with the item appended by an addItem of a new id, and no dispatched
\* action changes the unit price of an item that stays in the cart.
C3_UnitPriceNeverChanges ==
  ~raised =>
    \A a \in DispatchableActions :
       LET old == state.items
           new == ItemsAfter(a)
       IN  /\ (a.type = ACTION_TYPES.ADD_ITEM /\ a.payload \in ValidCandidates
               /\ FirstIndexOf(old, String(a.payload.id)) > 0) =>
                LET idx == FirstIndexOf(old, String(a.payload.id))
                IN  /\ Len(new) = Len(old)
                    /\ new[idx].unit_price_cents = old[idx].unit_price_cents
                    /\ new[idx].quantity > old[idx].quantity
           /\ Len(new) > Len(old) =>
                /\ a.type = ACTION_TYPES.ADD_ITEM
                /\ a.payload \in ValidCandidates
                /\ FirstIndexOf(old, String(a.payload.id)) = 0
                /\ Len(new) = Len(old) + 1
           /\ Len(new) >= Len(old) =>
                \A j \in 1..Len(old) :
                   /\ new[j].id = old[j].id
                   /\ new[j].unit_price_cents = old[j].unit_price_cents
           /\ Len(new) < Len(old) =>
                \A j \in 1..Len(new) : \E i \in j..Len(old) : new[j] = old[i]

\* an item is in the cart and addItem under its id with another price has
\* raised its quantity and kept its price
C3_Witness ==
  /\ ~raised
  /\ added.ok
  /\ \E c \in ValidCandidates :
        LET idx == FirstIndexOf(state.items, String(c.id))
        IN  /\ idx > 0
            /\ state.items[idx].unit_price_cents # IntOf(c.unit_price_cents)
            /\ ItemsAfter(AddOf(c))[idx].unit_price_cents
                 = state.items[idx].unit_price_cents
            /\ ItemsAfter(AddOf(c))[idx].quantity
                 = state.items[idx].quantity + IntOf(c.quantity)

---------------------------------------------------------------------------
\* C4: addItem of a candidate that fails validation returns the state object
\* it was given, unchanged, and throws nothing, whatever the cart holds.
C4_InvalidCandidateIsNoOp ==
  \A c \in InvalidCandidates :
     LET r == cartReducer(state, AddOf(c))
     IN  ~r.threw /\ r.same /\ r.state = state

\* a cart of two items on which every invalid candidate is refused while a
\* valid one is taken
C4_Witness ==
  /\ ~raised
  /\ added.ok
  /\ Len(state.items) = 2
  /\ \A c \in InvalidCandidates : cartReducer(state, AddOf(c)) = Same(state)
  /\ \E c \in ValidCandidates : ~cartReducer(state, AddOf(c)).same

---------------------------------------------------------------------------
\* C5: when addItem merges into an existing item, the item's notes become the
\* candidate's notes if those are a non-empty string and stay the notes the
\* item had otherwise.
C5_MergeNotes ==
  ~raised =>
    \A c \in ValidCandidates :
       LET idx == FirstIndexOf(state.items, String(c.id))
       IN  idx > 0 =>
             ItemsAfter(AddOf(c))[idx].notes =
               IF c.notes.type = "string" /\ c.notes.text # ""
               THEN c.notes
               ELSE state.items[idx].notes

\* an item with notes is in the cart; a candidate without notes leaves them
\* and a candidate with other, non-empty notes replaces them
C5_Witness ==
  /\ ~raised
  /\ \E i \in 1..Len(state.items) :
        /\ state.items[i].notes = Str("x")
        /\ FirstIndexOf(state.items, String(state.items[i].id)) = i
        /\ \E c \in ValidCandidates :
              /\ String(c.id) = String(state.items[i].id)
              /\ c.notes = Undefined
              /\ ItemsAfter(AddOf(c))[i].notes = Str("x")
              /\ ItemsAfter(AddOf(c))[i].quantity > state.items[i].quantity
  /\ \E i \in 1..Len(state.items) :
        /\ state.items[i].notes = Str("")
        /\ FirstIndexOf(state.items, String(state.items[i].id)) = i
        /\ \E c \in ValidCandidates :
              /\ String(c.id) = String(state.items[i].id)
              /\ c.notes = Str("x")
              /\ ItemsAfter(AddOf(c))[i].notes = Str("x")

---------------------------------------------------------------------------
(* C6 *)

Orderings(n) ==
  {f \in [1..n -> 1..n] : \A i, j \in 1..n : i # j => f[i] # f[j]}

RECURSIVE PermutedFrom(_, _, _)
PermutedFrom(items, f, i) ==
  IF i > Len(items) THEN <<>>
  ELSE <<items[f[i]]>> \o PermutedFrom(items, f, i + 1)

Permuted(items, f) == PermutedFrom(items, f, 1)

\* C6: addItem of a valid candidate whose id matches no item appends it as
\* the last item and leaves the items before it as they were, in their order;
\* subtotal, tax and total are the same for every order of the same items.
C6_AppendedLastAndOrderFreeTotals ==
  ~raised =>
    /\ \A c \in ValidCandidates :
         FirstIndexOf(state.items, String(c.id)) = 0 =>
           LET old == state.items
               new == ItemsAfter(AddOf(c))
               n == Len(old)
           IN  /\ Len(new) = n + 1
               /\ \A j \in 1..n : new[j] = old[j]
               /\ new[n + 1].id = c.id
               /\ new[n + 1].name = c.name.text
               /\ new[n + 1].unit_price_cents * 10 = c.unit_price_cents.tenths
               /\ new[n + 1].quantity * 10 = c.quantity.tenths
               /\ new[n + 1].notes = c.notes
    /\ \A f \in Orderings(Len(state.items)) :
         selectors([items |-> Permuted(state.items, f)]) = selectors(state)

\* a cart built by addItem calls alone: "a" came second and is last, and the
\* two lines have different amounts
C6_Witness ==
  /\ ~raised
  /\ added.ok
  /\ Len(state.items) = 2
  /\ added.qty[Str("a")] = state.items[2].quantity
  /\ state.items[2].id = Str("a")
  /\ state.items[1].unit_price_cents * state.items[1].quantity
       # state.items[2].unit_price_cents * state.items[2].quantity
  /\ \E c \in ValidCandidates :
        /\ c.id = Str("a")
        /\ cartReducer([items |-> <<state.items[1]>>], AddOf(c)).state.items
             = <<state.items[1], CopyOf(c)>>

---------------------------------------------------------------------------
(* C7 *)

\* the positions of the entries whose id has not the string form s
KeptIndexes(items, s) == {i \in 1..Len(items) : String(items[i].id) # s}

\* the k-th smallest member of a set of positions
Kth(S, k) == CHOOSE i \in S : Cardinality({j \in S : j <= i}) = k

RemoveOf(id) == Action(ACTION_TYPES.REMOVE_ITEM, id)

\* C7: removeItem(id) removes what matches the string form of id and leaves
\* the other items, in their order, as they were; when nothing matches it
\* returns the state it was given.
C7_RemoveItem ==
  ~raised =>
    \A id \in IdArgs :
       LET r == cartReducer(state, RemoveOf(id))
           keep == KeptIndexes(state.items, String(id))
       IN  IF FirstIndexOf(state.items, String(id)) = 0
           THEN r = Same(state)
           ELSE /\ ~r.threw
                /\ Len(r.state.items) = Cardinality(keep)
                /\ \A k \in 1..Cardinality(keep) :
                      r.state.items[k] = state.items[Kth(keep, k)]

\* two items; removing the first under an argument of another type and the
\* same string form leaves exactly the second
C7_Witness ==
  /\ ~raised
  /\ added.ok
  /\ Len(state.items) = 2
  /\ \E id \in IdArgs :
        /\ id # state.items[1].id
        /\ String(id) = String(state.items[1].id)
        /\ ItemsAfter(RemoveOf(id)) = <<state.items[2]>>

---------------------------------------------------------------------------
(* C8 *)

IncrementOf(id) == Action(ACTION_TYPES.INCREMENT, id)

\* C8: increment(id) raises the quantity of the matched item by exactly 1 and
\* changes nothing else: the other items, and the item's id, name, price,
\* notes and position; when nothing matches it returns the state it was given.
C8_Increment ==
  ~raised =>
    \A id \in IdArgs :
       LET r == cartReducer(state, IncrementOf(id))
           old == state.items
           new == r.state.items
           idx == FirstIndexOf(old, String(id))
       IN  IF idx = 0
           THEN r = Same(state)
           ELSE /\ ~r.threw
                /\ Len(new) = Len(old)
                /\ \A i \in 1..Len(old) : i # idx => new[i] = old[i]
                /\ new[idx].quantity = old[idx].quantity + 1
                /\ new[idx].id = old[idx].id
                /\ new[idx].name = old[idx].name
                /\ new[idx].unit_price_cents = old[idx].unit_price_cents
                /\ new[idx].notes = old[idx].notes

\* the second of two items, which has notes, takes an increment
C8_Witness ==
  /\ ~raised
  /\ added.ok
  /\ Len(state.items) = 2
  /\ state.items[2].notes = Str("x")
  /\ state.items[2].quantity = 2
  /\ ItemsAfter(IncrementOf(state.items[2].id))
       = <<state.items[1], [state.items[2] EXCEPT !.quantity = 3]>>

---------------------------------------------------------------------------
(* C9 *)

DecrementOf(id) == Action(ACTION_TYPES.DECREMENT, id)

\* C9: decrement(id) lowers the matched item's quantity by 1 when it is above
\* 1 and removes the item when it is not, so that the matched item is never
\* kept with quantity 0; when nothing matches it returns the state it was given.
C9_Decrement ==
  ~raised =>
    \A id \in IdArgs :
       LET r == cartReducer(state, DecrementOf(id))
           old == state.items
           new == r.state.items
           s == String(id)
           idx == FirstIndexOf(old, s)
       IN  IF idx = 0
           THEN r = Same(state)
           ELSE IF old[idx].quantity > 1
           THEN /\ ~r.threw
                /\ Len(new) = Len(old)
                /\ new[idx].quantity = old[idx].quantity - 1
                /\ new[idx].quantity >= 1
                /\ String(new[idx].id) = s
           ELSE /\ ~r.threw
                /\ FirstIndexOf(new, s) = 0
                /\ Len(new) < Len(old)

\* the first item, at quantity 1, leaves on a decrement; the second, at
\* quantity 2, stays with quantity 1
C9_Witness ==
  /\ ~raised
  /\ added.ok
  /\ Len(state.items) = 2
  /\ state.items[1].quantity = 1
  /\ state.items[2].quantity = 2
  /\ ItemsAfter(DecrementOf(state.items[1].id)) = <<state.items[2]>>
  /\ ItemsAfter(DecrementOf(state.items[2].id))
       = <<state.items[1], [state.items[2] EXCEPT !.quantity = 1]>>

---------------------------------------------------------------------------
(* C10 *)

\* the state after k consecutive decrements of id
RECURSIVE DecrementTimes(_, _, _)
DecrementTimes(st, id, k) ==
  IF k = 0 THEN st
  ELSE cartReducer(DecrementTimes(st, id, k - 1), DecrementOf(id)).state

\* the quantity of the item matched by the string form s, 0 when none is
QuantityOf(items, s) ==
  IF FirstIndexOf(items, s) = 0 THEN 0
  ELSE items[FirstIndexOf(items, s)].quantity

\* C10: an item of quantity q >= 1 is present with quantity q - k after k < q
\* consecutive decrements of its id and absent after the q-th; from then on
\* further decrements of that id return the state they are given.
C10_DecrementCounting ==
  ~raised =>
    \A id \in ItemIds :
       LET s == String(id)
           q == QuantityOf(state.items, s)
           gone == DecrementTimes(state, id, q)
       IN  q >= 1 =>
             /\ \A k \in 0..(q - 1) :
                   LET it == DecrementTimes(state, id, k).items
                   IN  /\ FirstIndexOf(it, s) > 0
                       /\ QuantityOf(it, s) = q - k
             /\ FirstIndexOf(gone.items, s) = 0
             /\ \A k \in 1..MaxExtraDecrements :
                   /\ DecrementTimes(state, id, q + k) = gone
                   /\ cartReducer(DecrementTimes(state, id, q + k - 1),
                                  DecrementOf(id)) = Same(gone)

\* an item holds quantity 3: it is there with quantity 1 after two decrements
\* and gone after the third
C10_Witness ==
  /\ ~raised
  /\ \E id \in ItemIds :
        /\ QuantityOf(state.items, String(id)) = 3
        /\ QuantityOf(DecrementTimes(state, id, 2).items, String(id)) = 1
        /\ FirstIndexOf(DecrementTimes(state, id, 3).items, String(id)) = 0
        /\ Len(DecrementTimes(state, id, 3).items) = Len(state.items) - 1

---------------------------------------------------------------------------
ClearOf == Action(ACTION_TYPES.CLEAR, Undefined)

\* C11: clear() leaves a cart without items whatever the state it is given,
\* and on a cart that is already empty it returns the very state it was given
\* (the same object, hence the same content).
C11_Clear ==
  LET r == cartReducer(state, ClearOf)
  IN  /\ ~r.threw
      /\ r.state.items = <<>>
      /\ state.items = <<>> => r = Same(state)

\* a cart of two items built by addItem is cleared into a new, empty state
C11_Witness ==
  /\ ~raised
  /\ added.ok
  /\ Len(state.items) = 2
  /\ cartReducer(state, ClearOf) = New(<<>>)

---------------------------------------------------------------------------
SetNoteOf(id, note) ==
  Action(ACTION_TYPES.SET_NOTE, [id |-> id, note |-> note])

\* C12: setItemNote(id, note) sets the notes of the matched item to the given
\* string, or to the empty string when the note is falsy (undefined, the empty
\* string), and changes nothing else: the other items, and the item's id,
\* name, price, quantity and position; when nothing matches it returns the
\* state it was given.
C12_SetItemNote ==
  ~raised =>
    \A id \in IdArgs, note \in NoteArgs :
       LET r == cartReducer(state, SetNoteOf(id, note))
           old == state.items
           new == r.state.items
           idx == FirstIndexOf(old, String(id))
       IN  IF idx = 0
           THEN r = Same(state)
           ELSE /\ ~r.threw
                /\ Len(new) = Len(old)
                /\ \A i \in 1..Len(old) : i # idx => new[i] = old[i]
                /\ new[idx].notes = IF IsNonEmptyString(note) THEN note
                                    ELSE Str("")
                /\ new[idx].id = old[idx].id
                /\ new[idx].name = old[idx].name
                /\ new[idx].unit_price_cents = old[idx].unit_price_cents
                /\ new[idx].quantity = old[idx].quantity

\* the second of two items carries the note "x": an undefined note empties it
\* and leaves its quantity of 2
C12_Witness ==
  /\ ~raised
  /\ added.ok
  /\ Len(state.items) = 2
  /\ state.items[2].notes = Str("x")
  /\ state.items[2].quantity = 2
  /\ ItemsAfter(SetNoteOf(state.items[2].id, Undefined))
       = [state.items EXCEPT ![2].notes = Str("")]

---------------------------------------------------------------------------
\* the ids no item of the cart answers to
AbsentIds == {id \in IdArgs : FirstIndexOf(state.items, String(id)) = 0}

\* the mutations that are no-ops in the current state: addItem with an
\* invalid candidate; removeItem, increment, decrement and setItemNote on an
\* id that is not in the cart; clear on an empty cart; an unknown action type
NoOpActions ==
  {AddOf(c) : c \in InvalidCandidates}
  \cup {Action(t, id) :
          t \in {ACTION_TYPES.REMOVE_ITEM, ACTION_TYPES.INCREMENT,
                 ACTION_TYPES.DECREMENT},
          id \in AbsentIds}
  \cup {SetNoteOf(id, note) : id \in AbsentIds, note \in NoteArgs}
  \cup (IF state.items = <<>> THEN {ClearOf} ELSE {})
  \cup {Action("UNKNOWN", Undefined)}

\* C13: a no-op mutation triggers no write to session storage: the persist
\* effect does not run after it, so that the storage keeps what it holds, and
\* a key that was removed in the meantime stays absent.
C13_NoOpWritesNothing ==
  ~raised =>
    \A a \in NoOpActions :
       LET r == cartReducer(state, a)
       IN  /\ ~effectRuns(r)
           /\ afterRender(r, sessionStorage, storageAccepts)
                = [raised |-> FALSE, stored |-> sessionStorage]
           /\ afterRender(r, NoKey, TRUE) = [raised |-> FALSE, stored |-> NoKey]

\* a cart of one item built by addItem: removing an id that is not in it, and
\* adding an invalid candidate, are among the no-ops and leave an absent key
\* absent, while an increment of the item would write
C13_Witness ==
  /\ ~raised
  /\ added.ok
  /\ Len(state.items) = 1
  /\ Action(ACTION_TYPES.REMOVE_ITEM, Str("zz")) \in NoOpActions
  /\ afterRender(cartReducer(state, Action(ACTION_TYPES.REMOVE_ITEM, Str("zz"))),
                 NoKey, TRUE).stored = NoKey
  /\ \E c \in InvalidCandidates :
        afterRender(cartReducer(state, AddOf(c)), NoKey, TRUE).stored = NoKey
  /\ afterRender(cartReducer(state, IncrementOf(state.items[1].id)),
                 NoKey, TRUE).stored # NoKey

---------------------------------------------------------------------------
\* C14: every mutation that changes the cart is followed by the write of the
\* new snapshot, and writes keep their order: while storage accepts the
\* writes, whenever the provider is at rest the stored snapshot is the
\* snapshot of the current in-memory state, never an earlier one.
C14_StoredIsCurrentSnapshot ==
  ~raised => sessionStorage = stringify(state)

\* after several mutations (two items, one of them incremented or merged)
\* the storage holds the snapshot of the cart as it is now
C14_Witness ==
  /\ ~raised
  /\ added.ok
  /\ Len(state.items) = 2
  /\ state.items[1].quantity = 2
  /\ sessionStorage = stringify(state)
  /\ readCartFromSession(sessionStorage).items = state.items

---------------------------------------------------------------------------
\* the sum of price x quantity over the entries of items at the indexes in S
RECURSIVE SumOver(_, _)
SumOver(items, S) ==
  IF S = {} THEN 0
  ELSE LET i == CHOOSE j \in S : TRUE
       IN  items[i].unit_price_cents * items[i].quantity
             + SumOver(items, S \ {i})

\* C15: in every reachable cart state the derived subtotalCents is the sum,
\* over all items, of the unit price in cents times the quantity, an integer;
\* it is 0 for the empty cart.
C15_SubtotalIsSumOfLines ==
  ~raised =>
    LET sub == selectors(state).subtotalCents
    IN  /\ sub = SumOver(state.items, DOMAIN state.items)
        /\ sub \in Int
        /\ state.items = <<>> => sub = 0

\* two items built by addItem, the first priced 450 with a quantity of 2, the
\* second priced 450 as well: the subtotal is 900 plus the second line
C15_Witness ==
  /\ ~raised
  /\ added.ok
  /\ Len(state.items) = 2
  /\ state.items[1].unit_price_cents = 450
  /\ state.items[1].quantity = 2
  /\ state.items[2].unit_price_cents = 450
  /\ selectors(state).subtotalCents = 900 + 450 * state.items[2].quantity

---------------------------------------------------------------------------
(* computeTaxCents on its own: a call on a subtotal and a rate, and the     *)
(* tax and total the selectors build from it.                              *)

TaxRates == {DEFAULT_TAX_RATE_BPS, Num(800)}

TaxCalls ==
  {[status |-> "called", subtotalCents |-> s, rateBps |-> r,
    taxCents |-> 0, totalCents |-> 0] :
     s \in 0..MaxSubtotalCents, r \in TaxRates}

TaxInit ==
  /\ StartsOn(NoKey, TRUE)
  /\ calc \in TaxCalls
  /\ isSupabaseConfigured = TRUE
  /\ OnOrdersPage

\* taxCents = computeTaxCents(subtotalCents, rate); totalCents = subtotalCents + taxCents
computeTotals ==
  /\ calc.status = "called"
  /\ LET taxCents == computeTaxCents(calc.subtotalCents, calc.rateBps)
     IN  calc' = [calc EXCEPT !.status = "returned",
                              !.taxCents = taxCents,
                              !.totalCents = calc.subtotalCents + taxCents]
  /\ UNCHANGED <<cartVars, isSupabaseConfigured, checkoutVars, viewVars>>

TaxNext == computeTotals

TaxSpec == TaxInit /\ [][TaxNext]_vars

\* the integer nearest to n / d, a half going up (n >= 0, d > 0)
HalfUp(n, d) ==
  CHOOSE t \in 0..(n \div d + 1) : 2 * d * t - d <= 2 * n /\ 2 * n < 2 * d * t + d

\* subtotalCents * rate / 10000 as a fraction: the rate is held in tenths of a
\* basis point
ExactTaxNumerator(c) == c.subtotalCents * c.rateBps.tenths
ExactTaxDenominator == BPS_SCALE * 10

\* C16: for every non-negative integer subtotal, the tax is the exact value
\* subtotalCents * rate / 10000 rounded half-up to the cent, with nothing lost
\* to an intermediate rounding (at the default rate: subtotalCents * 8875 /
\* 100000 rounded half-up).
C16_TaxIsExactValueRoundedHalfUp ==
  calc.status = "returned" =>
    calc.taxCents = HalfUp(ExactTaxNumerator(calc), ExactTaxDenominator)

---------------------------------------------------------------------------
\* C18: in every reachable cart state the derived totals are those of the
\* current items, totalCents = subtotalCents + taxCents, taxCents is a
\* non-negative integer, and none of the three values is fractional.
C18_TotalsConsistent ==
  ~raised =>
    LET t == selectors(state)
    IN  /\ t.subtotalCents = SumOver(state.items, DOMAIN state.items)
        /\ t.totalCents = t.subtotalCents + t.taxCents
        /\ t.taxCents \in Nat
        /\ t.subtotalCents \in Int
        /\ t.totalCents \in Int

---------------------------------------------------------------------------
\* a Line Item as the store builds them: an entry with a non-negative integer
\* price and a positive integer quantity
ValidLineItem(e) ==
  /\ e # Null
  /\ e.unit_price_cents \in Nat
  /\ e.quantity \in Nat \ {0}

\* C19: load() never raises and returns "no snapshot", so that the cart starts
\* empty, when the key is absent, the storage is unavailable, the stored text
\* is no JSON or the parsed value has no valid items collection; only a stored
\* value that holds a valid collection of Line Items is restored as the cart.
C19_LoadRestoresOnlyValidItems ==
  LET saved == readCartFromSession(sessionStorage)
  IN  /\ sessionStorage \in {NoKey, Unavailable, EmptyText, GarbageText}
           => saved = Null
      /\ saved = Null => initializer(sessionStorage) = initialState
      /\ saved # Null =>
           /\ \A i \in 1..Len(saved.items) : ValidLineItem(saved.items[i])
           /\ initializer(sessionStorage) = saved

---------------------------------------------------------------------------
(* The store over a storage that refuses writes at times: the quota of the  *)
(* origin is used up and freed by other scripts, or the storage is          *)
(* disabled altogether.                                                     *)

FewCandidates ==
  {Candidate(id, Str("Latte"), Num(450), Num(1), Undefined) :
     id \in {Str("a"), Num(1)}}
  \cup {Null}

FewIds == {Str("a"), Num(1), Str("zz")}

FewActions ==
  {Action(ACTION_TYPES.ADD_ITEM, c) : c \in FewCandidates}
  \cup {Action(t, id) :
          t \in {ACTION_TYPES.REMOVE_ITEM, ACTION_TYPES.INCREMENT,
                 ACTION_TYPES.DECREMENT},
          id \in FewIds}
  \cup {Action(ACTION_TYPES.CLEAR, Undefined),
        Action(ACTION_TYPES.SET_NOTE, [id |-> Str("a"), note |-> Str("x")]),
        Action("UNKNOWN", Undefined)}

FailingInitialStorage ==
  {NoKey, Unavailable, GarbageText,
   JsonText(JsonObject(JsonArray(<<StoredLatte>>)))}

FailingInit ==
  /\ \E stored \in FailingInitialStorage, accepts \in BOOLEAN :
        StartsOn(stored, accepts)
  /\ calc = NoCall
  /\ isSupabaseConfigured = TRUE
  /\ OnOrdersPage

dispatchFew == \E a \in FewActions : Dispatch(a)

\* the storage starts or stops refusing writes
storageTurns ==
  /\ storageAccepts' = ~storageAccepts
  /\ UNCHANGED <<state, sessionStorage, raised, added, calc,
                 isSupabaseConfigured, checkoutVars, viewVars>>

FailingNext ==
  \/ dispatchFew
  \/ reload
  \/ storageTurns

FailingStorageSpec == FailingInit /\ [][FailingNext]_vars

\* C20: a failing storage write is swallowed: nothing is raised, the cart in
\* memory is the one the mutation produced, and every operation, in every
\* state reached over failed writes, gives what it gives with a storage that
\* works; the storage just keeps what it held.
C20_FailedWriteIsSwallowed ==
  /\ ~raised
  /\ \A a \in FewActions :
        LET fails == dispatched(state, sessionStorage, FALSE, a)
            works == dispatched(state, sessionStorage, TRUE, a)
        IN  /\ ~fails.raised
            /\ fails.r = works.r
            /\ fails.r = cartReducer(state, a)
            /\ fails.raised = works.raised
            /\ fails.stored = sessionStorage

\* the storage refuses writes and holds an older snapshot than the cart of
\* two items in memory, which the next increment still changes
C20_Witness ==
  /\ ~raised
  /\ ~storageAccepts
  /\ Len(state.items) = 2
  /\ sessionStorage # Unavailable
  /\ sessionStorage # stringify(state)
  /\ LET d == dispatched(state, sessionStorage, storageAccepts,
                         Action(ACTION_TYPES.INCREMENT, state.items[2].id))
     IN  /\ d.r.state.items[2].quantity = state.items[2].quantity + 1
         /\ d.stored = sessionStorage

---------------------------------------------------------------------------
\* two item lists hold the same ids in the same order with the same
\* quantities, unit prices and notes
EquivalentItems(a, b) ==
  /\ Len(a) = Len(b)
  /\ \A i \in 1..Len(a) :
        /\ a[i] # Null
        /\ b[i] # Null
        /\ a[i].id = b[i].id
        /\ a[i].quantity = b[i].quantity
        /\ a[i].unit_price_cents = b[i].unit_price_cents
        /\ a[i].notes = b[i].notes

---------------------------------------------------------------------------
\* C24: every cart operation is total: for any argument and in any reachable
\* cart state, one restored from session storage included, it completes
\* without raising and yields the new snapshot or leaves the state unchanged.
C24_OperationsAreTotal ==
  /\ ~raised
  /\ \A a \in DispatchableActions :
        LET r == cartReducer(state, a)
        IN  /\ ~r.threw
            /\ ~(~r.same /\ selectorsThrow(r.state))

---------------------------------------------------------------------------
(* Checkout: CheckoutPanel on /checkout, the menu and the current order on  *)
(* /orders, the sidebar that leads from one to the other at any time, and   *)
(* the backend that answers each insert when it pleases.                    *)

\* 'other' goes the way of 'card'
Tenders == {"cash", "card"}

\* values of cashReceivedCents: nothing entered, and 10.00
CashAmounts == {0, 1000}

\* App.js renders <CheckoutPanel /> without props
Props == [onStatus |-> FALSE, onSupabaseError |-> FALSE]

\* useState('cash'), useState('') which parses to 0, useState(false)
FreshPanel ==
  [mounted |-> TRUE, tender |-> "cash", cashReceivedCents |-> 0,
   isSubmitting |-> FALSE]

canSubmit_CashCoversTotal(items, totalCents, p, configured) ==
  IF Len(items) = 0 THEN FALSE
  ELSE IF ~configured THEN FALSE
  ELSE IF p.tender = "cash" THEN p.cashReceivedCents >= totalCents
  ELSE totalCents > 0

canSubmit(items, totalCents, p, configured) ==
  IF Len(items) = 0 THEN FALSE
  ELSE IF ~configured THEN FALSE
  ELSE IF p.tender = "cash"
       THEN p.cashReceivedCents >= totalCents /\ totalCents > 0
  ELSE totalCents > 0

\* the Submit Order button: disabled={!canSubmit || isSubmitting}
submitDisabled(st, p, configured) ==
  ~canSubmit(st.items, selectors(st).totalCents, p, configured) \/ p.isSubmitting

\* the three early returns of handleSubmit
handleSubmitRefuses(st, p, configured) ==
  \/ ~canSubmit(st.items, selectors(st).totalCents, p, configured)
  \/ ~configured
  \/ Len(st.items) = 0

\* what handleSubmit holds once it has called the backend: the items and the
\* totals of the render it was created in, the tender, the insert it awaits,
\* the id of its orders row, and whether its CheckoutPanel is still mounted
startedSubmission(st, p) ==
  LET t == selectors(st)
  IN  [items |-> st.items,
       subtotal_cents |-> t.subtotalCents,
       tax_cents |-> t.taxCents,
       total_cents |-> t.totalCents,
       tender_type |-> p.tender,
       awaiting |-> "orders",
       order_id |-> 0,
       live |-> TRUE]

\* the orders row of a submission, under the id the backend gives it
orderRow(id, sub) ==
  [id |-> id, subtotal_cents |-> sub.subtotal_cents, tax_cents |-> sub.tax_cents,
   total_cents |-> sub.total_cents, tender_type |-> sub.tender_type]

itemRow_NoQuantity(orderId, it) ==
  [order_id |-> orderId, item_id |-> it.id, name |-> it.name,
   unit_price_cents |-> it.unit_price_cents, quantity |-> 0,
   notes |-> IF Truthy(it.notes) THEN it.notes ELSE Null]

\* unit_price_cents || 0 and quantity || 0 are the numbers; notes || null
itemRow(orderId, it) ==
  [order_id |-> orderId, item_id |-> it.id, name |-> it.name,
   unit_price_cents |-> it.unit_price_cents, quantity |-> it.quantity,
   notes |-> IF Truthy(it.notes) THEN it.notes ELSE Null]

itemsRows(orderId, items) ==
  [i \in 1..Len(items) |-> itemRow(orderId, items[i])]

\* onStatus(message, type), when the prop was given
shows(fb, type) ==
  [shown |-> IF Props.onStatus THEN type ELSE fb.shown]

\* finally { setIsSubmitting(false) }: it reaches the panel that started the
\* submission, if that panel is still mounted
finished(p, sub) ==
  IF p # NotMounted /\ sub.live THEN [p EXCEPT !.isSubmitting = FALSE] ELSE p

\* The submissions form a bag: two calls of handleSubmit may hold the same.
One(sub) == SetToBag({sub})

\* submission sub has moved on to become next
Becomes(subs, sub, next) == (subs (-) One(sub)) (+) One(next)

\* the panel was unmounted: no submission belongs to a mounted panel
orphaned(subs) ==
  LET live == {s \in BagToSet(subs) : s.live}
  IN  IF live = {} THEN subs
      ELSE LET s == CHOOSE x \in live : TRUE
           IN  Becomes(subs, s, [s EXCEPT !.live = FALSE])

\* the cart of an earlier session: one Latte that was on the house
StoredFreeLatte == [StoredLatte EXCEPT !.unit_price_cents = 0]

CheckoutInitialStorage ==
  {NoKey, JsonText(JsonObject(JsonArray(<<StoredFreeLatte>>)))}

CheckoutInit ==
  /\ \E stored \in CheckoutInitialStorage : StartsOn(stored, TRUE)
  /\ calc = NoCall
  /\ isSupabaseConfigured \in BOOLEAN
  /\ OnOrdersPage

\* a link of the sidebar: the page changes, CheckoutPanel mounts or unmounts
navigateTo(to) ==
  /\ ~raised
  /\ to # route
  /\ route' = to
  /\ panel' = IF to = "checkout" THEN FreshPanel ELSE NotMounted
  /\ submissions' = IF route = "checkout" THEN orphaned(submissions)
                    ELSE submissions
  /\ UNCHANGED <<cartVars, calc, isSupabaseConfigured, backend, feedback,
                 viewVars>>

navigate == \E to \in {"orders", "checkout"} : navigateTo(to)

\* itemsCount: items.reduce((acc, it) => acc + (it.quantity || 0), 0)
RECURSIVE itemsCount(_)
itemsCount(items) ==
  IF items = <<>> THEN 0
  ELSE Head(items).quantity + itemsCount(Tail(items))

\* what the menu and the current order do to the cart while /orders is shown
OrdersPageActions ==
  {Action(ACTION_TYPES.ADD_ITEM,
          Candidate(Str("a"), Str("Latte"), Num(450), Num(1), Undefined)),
   Action(ACTION_TYPES.ADD_ITEM,
          Candidate(Str("b"), Str("Mocha"), Num(500), Num(1), Str("x"))),
   Action(ACTION_TYPES.DECREMENT, Str("a"))}

changeCart ==
  /\ route = "orders"
  /\ \E a \in OrdersPageActions :
        /\ DispatchCart(a)
        /\ itemsCount(state'.items) <= MaxCheckoutQuantity
  /\ UNCHANGED <<calc, isSupabaseConfigured, checkoutVars, viewVars>>

setTender ==
  /\ ~raised
  /\ route = "checkout"
  /\ \E t \in Tenders : panel' = [panel EXCEPT !.tender = t]
  /\ UNCHANGED <<cartVars, calc, isSupabaseConfigured, route, submissions,
                 backend, feedback, viewVars>>

setCashReceived ==
  /\ ~raised
  /\ route = "checkout"
  /\ \E c \in CashAmounts : panel' = [panel EXCEPT !.cashReceivedCents = c]
  /\ UNCHANGED <<cartVars, calc, isSupabaseConfigured, route, submissions,
                 backend, feedback, viewVars>>

\* a click on the enabled Submit Order button: handleSubmit up to its first
\* await; limit caps the number of submissions of a run
submitOrderUpTo(limit) ==
  /\ ~raised
  /\ route = "checkout"
  /\ ~submitDisabled(state, panel, isSupabaseConfigured)
  /\ IF handleSubmitRefuses(state, panel, isSupabaseConfigured)
     THEN /\ feedback' = shows(feedback, "error")
          /\ UNCHANGED <<panel, submissions, backend>>
     ELSE /\ BagCardinality(submissions) < limit
          /\ panel' = [panel EXCEPT !.isSubmitting = TRUE]
          /\ submissions' = submissions (+) One(startedSubmission(state, panel))
          /\ backend' = [backend EXCEPT !.requested = TRUE]
          /\ UNCHANGED feedback
  /\ UNCHANGED <<cartVars, calc, isSupabaseConfigured, route, viewVars>>

submitOrder == submitOrderUpTo(MaxSubmissions)

\* the backend answers the orders insert of submission sub: an error, a row
\* without id, or the row
ordersInsertAnswers(sub, answer) ==
  /\ sub.awaiting = "orders"
  /\ LET id == Len(backend.orders) + 1
     IN  CASE answer = "error" ->
                /\ submissions' = submissions (-) One(sub)
                /\ feedback' = shows(feedback, "error")
                /\ panel' = finished(panel, sub)
                /\ UNCHANGED backend
           [] answer = "no id" ->
                /\ backend' = [backend EXCEPT
                                 !.orders = Append(@, orderRow(id, sub))]
                /\ submissions' =
                     Becomes(submissions, sub,
                             [sub EXCEPT !.awaiting = "failed", !.order_id = id,
                                         !.live = FALSE])
                /\ feedback' = shows(feedback, "error")
                /\ panel' = finished(panel, sub)
           [] answer = "row" ->
                /\ backend' = [backend EXCEPT
                                 !.orders = Append(@, orderRow(id, sub))]
                /\ submissions' =
                     Becomes(submissions, sub,
                             [sub EXCEPT !.awaiting = "order_items",
                                         !.order_id = id])
                /\ UNCHANGED <<feedback, panel>>
  /\ UNCHANGED <<cartVars, calc, isSupabaseConfigured, route, viewVars>>

ordersAnswer ==
  \E sub \in BagToSet(submissions), answer \in {"error", "no id", "row"} :
     ordersInsertAnswers(sub, answer)

\* the backend refuses the order_items insert of submission sub
itemsInsertFails(sub) ==
  /\ sub.awaiting = "order_items"
  /\ submissions' =
       Becomes(submissions, sub,
               [sub EXCEPT !.awaiting = "failed", !.live = FALSE])
  /\ feedback' = shows(feedback, "error")
  /\ panel' = finished(panel, sub)
  /\ UNCHANGED <<cartVars, calc, isSupabaseConfigured, route, backend, viewVars>>

itemsFail == \E sub \in BagToSet(submissions) : itemsInsertFails(sub)

\* the backend stores the order_items of submission sub: clear(), the
\* success message, navigate('/orders')
itemsInsertSucceeds(sub) ==
  /\ sub.awaiting = "order_items"
  /\ backend' = [backend EXCEPT
                   !.order_items = @ \o itemsRows(sub.order_id, sub.items)]
  /\ DispatchCart(Action(ACTION_TYPES.CLEAR, Undefined))
  /\ feedback' = shows(feedback, "success")
  /\ route' = "orders"
  /\ panel' = NotMounted
  /\ submissions' =
       orphaned(Becomes(submissions, sub,
                        [sub EXCEPT !.awaiting = "done", !.live = FALSE]))
  /\ UNCHANGED <<calc, isSupabaseConfigured, viewVars>>

itemsSucceed == \E sub \in BagToSet(submissions) : itemsInsertSucceeds(sub)

CheckoutNext ==
  \/ navigate
  \/ changeCart
  \/ setTender
  \/ setCashReceived
  \/ submitOrder
  \/ ordersAnswer
  \/ itemsFail
  \/ itemsSucceed

CheckoutSpec == CheckoutInit /\ [][CheckoutNext]_vars

\* The same program in a longer run: after a submission the cashier submits
\* again.
submitAgain == submitOrderUpTo(MaxResubmissions)

ResubmitNext ==
  \/ navigate
  \/ changeCart
  \/ setTender
  \/ setCashReceived
  \/ submitAgain
  \/ ordersAnswer
  \/ itemsFail
  \/ itemsSucceed

ResubmitSpec == CheckoutInit /\ [][ResubmitNext]_vars

---------------------------------------------------------------------------
(* Claims about the checkout *)

\* the order_items rows a step has written
newItemRows ==
  SubSeq(backend'.order_items, Len(backend.order_items) + 1,
         Len(backend'.order_items))

\* the rows of table rows that belong to order id
rowsOf(rows, id) == {i \in DOMAIN rows : rows[i].order_id = id}

\* the step in which the order_items insert of sub succeeds: the orders row
\* of sub is there, once, with the totals of the cart sub was started with
\* and its tender; the step writes one row per item of that cart, none was
\* there before, and the cart is empty afterwards
SecondWriteOf(sub) ==
  LET cart == [state EXCEPT !.items = sub.items]
      rows == newItemRows
  IN  /\ sub.awaiting = "order_items"
      /\ Cardinality({i \in DOMAIN backend.orders :
                        backend.orders[i].id = sub.order_id}) = 1
      /\ backend.orders[sub.order_id] =
           [id |-> sub.order_id,
            subtotal_cents |-> selectors(cart).subtotalCents,
            tax_cents |-> selectors(cart).taxCents,
            total_cents |-> selectors(cart).totalCents,
            tender_type |-> sub.tender_type]
      /\ backend'.orders = backend.orders
      /\ rowsOf(backend.order_items, sub.order_id) = {}
      /\ Len(rows) = Len(sub.items)
      /\ \A i \in 1..Len(rows) :
            /\ rows[i].order_id = sub.order_id
            /\ rows[i].item_id = sub.items[i].id
            /\ rows[i].name = sub.items[i].name
            /\ rows[i].unit_price_cents = sub.items[i].unit_price_cents
            /\ rows[i].quantity = sub.items[i].quantity
            /\ rows[i].notes = IF Truthy(sub.items[i].notes)
                               THEN sub.items[i].notes ELSE Null
      /\ state'.items = <<>>

\* C22: a successful checkout writes exactly one orders row carrying the
\* subtotal, tax, total and tender type of the cart it was started with and
\* exactly one order_items row per item of that cart (id, name, unit price,
\* quantity, notes); the cart is cleared in the step in which the second write
\* succeeds, and no earlier step of a submission changes the cart.
C22_SuccessfulCheckout ==
  [][ /\ backend'.order_items # backend.order_items
         => \E sub \in BagToSet(submissions) : SecondWriteOf(sub)
      /\ (backend'.order_items = backend.order_items
            /\ submissions' # submissions)
         => state' = state ]_vars

\* an order of two items, one of them with a note, has been written and the
\* cart is empty
C22_Witness ==
  /\ state.items = <<>>
  /\ \E sub \in BagToSet(submissions) :
        /\ sub.awaiting = "done"
        /\ Len(sub.items) = 2
        /\ \E i \in 1..2 : Truthy(sub.items[i].notes)
        /\ \E i \in 1..2 : ~Truthy(sub.items[i].notes)
        /\ Cardinality(rowsOf(backend.order_items, sub.order_id)) = 2

\* a step in which a backend write of a submission fails: the orders insert,
\* an orders row without id, or the order_items insert
AWriteFails ==
  \/ \E sub \in BagToSet(submissions), answer \in {"error", "no id"} :
        ordersInsertAnswers(sub, answer)
  \/ \E sub \in BagToSet(submissions) : itemsInsertFails(sub)

\* C23: when a backend write fails during checkout the failure is shown to
\* the user as an error, no new submission is started by it, and the cart is
\* left as it was.
C23_FailureIsSurfaced ==
  [][ AWriteFails
        => /\ feedback'.shown = "error"
           /\ BagCardinality(submissions') <= BagCardinality(submissions)
           /\ backend'.order_items = backend.order_items
           /\ state' = state ]_vars

\* what the panel can hold when Submit Order is clicked or handleSubmit is
\* called
Panels ==
  {[mounted |-> TRUE, tender |-> t, cashReceivedCents |-> c, isSubmitting |-> s] :
     t \in Tenders, c \in CashAmounts, s \in BOOLEAN}

\* C25: no order is written unless, at submission, the cart is non-empty, its
\* total is positive, the backend is configured and, for cash, the cash
\* received covers the total: whatever the panel holds, handleSubmit goes on
\* to the backend only then (so never with a cart of zero-priced items), and
\* every submission and every orders row is of a non-empty cart with a
\* positive total, under a configured backend.
C25_NoOrderUnlessSubmittable ==
  /\ ~raised =>
       \A p \in Panels :
          ~handleSubmitRefuses(state, p, isSupabaseConfigured)
            => /\ state.items # <<>>
               /\ selectors(state).totalCents > 0
               /\ isSupabaseConfigured
               /\ p.tender = "cash"
                    => p.cashReceivedCents >= selectors(state).totalCents
  /\ \A sub \in BagToSet(submissions) :
        sub.items # <<>> /\ sub.total_cents > 0 /\ isSupabaseConfigured
  /\ \A i \in DOMAIN backend.orders :
        backend.orders[i].total_cents > 0 /\ isSupabaseConfigured
  /\ backend.requested => isSupabaseConfigured
  /\ (backend.orders # <<>> \/ backend.order_items # <<>>) => backend.requested

\* the checkout of a cart that holds only a zero-priced item, with 10.00
\* entered as cash: Submit Order is disabled and handleSubmit would refuse
C25_Witness ==
  /\ ~raised
  /\ route = "checkout"
  /\ state.items # <<>>
  /\ \A i \in 1..Len(state.items) : state.items[i].unit_price_cents = 0
  /\ isSupabaseConfigured
  /\ panel.tender = "cash"
  /\ panel.cashReceivedCents = 1000
  /\ submitDisabled(state, panel, isSupabaseConfigured)
  /\ handleSubmitRefuses(state, panel, isSupabaseConfigured)

\* the submissions that are awaiting the backend
inFlight(subs) == {s \in BagToSet(subs) : s.awaiting \in {"orders", "order_items"}}

\* C27: submission is all-or-nothing on the backend: every orders row whose
\* submission is over has one order_items row per item of its cart, and no
\* cart has two orders rows, one of them left by a submission that failed.
C27_AllOrNothing ==
  /\ \A sub \in BagToSet(submissions) :
        sub.awaiting \in {"failed", "done"}
          => Cardinality(rowsOf(backend.order_items, sub.order_id))
               = Len(sub.items)
  /\ \A failed, other \in BagToSet(submissions) :
        (/\ failed.awaiting = "failed"
         /\ other.order_id # 0
         /\ other.items = failed.items)
          => /\ other.order_id = failed.order_id
             /\ CopiesIn(failed, submissions) = 1

\* C28: the cart emptied by clear() at the end of a successful submission
\* holds exactly the items that were written to the backend: the rows written
\* by the step are the rows of the cart the step empties.
C28_ClearedCartIsWrittenCart ==
  [][ backend'.order_items # backend.order_items
        => \E sub \in BagToSet(submissions) :
              /\ sub.awaiting = "order_items"
              /\ newItemRows = itemsRows(sub.order_id, state.items) ]_vars

\* C29: at most one submission is in flight at any time: while one is
\* awaiting the backend Submit Order is disabled on the mounted panel, and a
\* panel that shows isSubmitting has a submission in flight.
C29_OneSubmissionInFlight ==
  /\ \A sub \in inFlight(submissions) :
        /\ inFlight(submissions) = {sub}
        /\ CopiesIn(sub, submissions) = 1
        /\ panel # NotMounted => submitDisabled(state, panel, isSupabaseConfigured)
  /\ (panel # NotMounted /\ panel.isSubmitting)
        => \E sub \in inFlight(submissions) : sub.live

---------------------------------------------------------------------------
(* The views that read and write the menu: useSupabaseTable under           *)
(* MenuManager on /menu, and MenuGrid on /orders.                            *)

\* configErrorMessage
ConfigErrorMessage == Str("Supabase is not configured.")

\* the message of an error the backend answers with
BackendErrorMessage == Str("backend error")

\* the rows of menu_items the backend answers with
MenuRows == <<"Latte">>

\* create, update and remove have not returned yet
NoReturn == [returned |-> FALSE]

WriteOps == {"create", "update", "remove"}

\* the value create and update return, and the one remove returns
returnOf(op, data, error) ==
  IF op = "remove" THEN [error |-> error] ELSE [data |-> data, error |-> error]

\* useState([]), useState(Boolean(isSupabaseConfigured)), useState(null); no
\* call of the hook's functions is awaiting the backend
FreshTable(configured) ==
  [mounted |-> TRUE, data |-> <<>>, loading |-> configured, error |-> Null,
   calls |-> {}, returned |-> NoReturn]

\* list() up to its await, called by caller ("list" stands for the effect and
\* for refresh); MenuManager passes table: 'menu_items'
list(t, caller, configured) ==
  IF ~configured
  THEN [t EXCEPT !.loading = FALSE, !.error = Null, !.data = <<>>,
                 !.calls = @ \ {[op |-> caller, awaiting |-> "write"]}]
  ELSE [t EXCEPT !.loading = TRUE, !.error = Null,
                 !.calls = (@ \ {[op |-> caller, awaiting |-> "write"]})
                             \cup {[op |-> caller, awaiting |-> "list"]}]

\* create, update, remove past the configuration check: the request is sent
sendWrite(t, op) ==
  [t EXCEPT !.calls = @ \cup {[op |-> op, awaiting |-> "write"]}]

write_Unguarded(t, op, configured) == sendWrite(t, op)

\* create(record), update(id, patch), remove(id) up to their await
write(t, op, configured) ==
  IF ~configured
  THEN [t EXCEPT !.error = ConfigErrorMessage,
                 !.returned = returnOf(op, Null, ConfigErrorMessage)]
  ELSE sendWrite(t, op)

\* some call of the hook is awaiting the backend
requesting(t) == t # NotMounted /\ t.calls # {}

\* useState([]), useState(isSupabaseConfigured), useState(null), and the
\* effect that calls fetchItems()
FreshMenu(configured) ==
  [mounted |-> TRUE, items |-> <<>>, loading |-> configured, error |-> Null,
   fetching |-> FALSE]

\* fetchItems() up to its await
fetchItems(m, configured) ==
  IF ~configured
  THEN [m EXCEPT !.loading = FALSE, !.items = <<>>, !.error = Null]
  ELSE [m EXCEPT !.loading = TRUE, !.error = Null, !.fetching = TRUE]

\* the cart of an earlier session, free or to be paid
ViewsInitialStorage ==
  CheckoutInitialStorage \cup {JsonText(JsonObject(JsonArray(<<StoredLatte>>)))}

\* the app opens on /orders: MenuGrid mounts and fetches
ViewsInit ==
  /\ \E stored \in ViewsInitialStorage : StartsOn(stored, TRUE)
  /\ calc = NoCall
  /\ isSupabaseConfigured \in BOOLEAN
  /\ route = "orders"
  /\ panel = NotMounted
  /\ submissions = EmptyBag
  /\ feedback = NoFeedback
  /\ table = NotMounted
  /\ dashboard = NotMounted
  /\ menu = fetchItems(FreshMenu(isSupabaseConfigured), isSupabaseConfigured)
  /\ backend = [EmptyBackend EXCEPT !.requested = isSupabaseConfigured]

\* a link of the sidebar to /orders or /menu: the view of the page left
\* unmounts, what it awaits finds it gone, the view of the page mounts and
\* its effect runs
visitPage(to) ==
  /\ to # route
  /\ route' = to
  /\ menu' = IF to = "orders"
             THEN fetchItems(FreshMenu(isSupabaseConfigured),
                             isSupabaseConfigured)
             ELSE NotMounted
  /\ table' = IF to = "menu"
              THEN list(FreshTable(isSupabaseConfigured), "list",
                        isSupabaseConfigured)
              ELSE NotMounted
  /\ backend' = [backend EXCEPT !.requested = @ \/ isSupabaseConfigured]
  /\ UNCHANGED <<cartVars, calc, isSupabaseConfigured, panel, submissions,
                 feedback, dashboard>>

visit == \E to \in {"orders", "menu"} : visitPage(to)

\* the backend answers the menu_items query of MenuGrid
fetchAnswers(answer) ==
  /\ menu # NotMounted
  /\ menu.fetching
  /\ menu' = IF answer = "rows"
             THEN [menu EXCEPT !.items = MenuRows, !.error = Null,
                               !.loading = FALSE, !.fetching = FALSE]
             ELSE [menu EXCEPT !.items = <<>>, !.error = BackendErrorMessage,
                               !.loading = FALSE, !.fetching = FALSE]
  /\ UNCHANGED <<cartVars, calc, isSupabaseConfigured, checkoutVars, table,
                 dashboard>>

fetchAnswer == \E answer \in {"rows", "error"} : fetchAnswers(answer)

\* MenuManager calls refresh()
refresh ==
  /\ table # NotMounted
  /\ [op |-> "list", awaiting |-> "list"] \notin table.calls
  /\ table' = list(table, "list", isSupabaseConfigured)
  /\ backend' = [backend EXCEPT !.requested = @ \/ isSupabaseConfigured]
  /\ UNCHANGED <<cartVars, calc, isSupabaseConfigured, route, panel,
                 submissions, feedback, menu, dashboard>>

\* MenuManager calls create, update or remove
callWrite(op) ==
  /\ table # NotMounted
  /\ \A c \in table.calls : c.op # op
  /\ table' = write(table, op, isSupabaseConfigured)
  /\ backend' = [backend EXCEPT !.requested = @ \/ requesting(table')]
  /\ UNCHANGED <<cartVars, calc, isSupabaseConfigured, route, panel,
                 submissions, feedback, menu, dashboard>>

writeCall == \E op \in WriteOps : callWrite(op)

\* the backend answers the insert, update or delete of a call: an error is
\* returned, a success goes on to await list()
writeAnswers(c, answer) ==
  /\ c.awaiting = "write"
  /\ table' = IF answer = "error"
              THEN [table EXCEPT
                      !.error = BackendErrorMessage,
                      !.returned = returnOf(c.op, Null, BackendErrorMessage),
                      !.calls = @ \ {c}]
              ELSE list(table, c.op, isSupabaseConfigured)
  /\ UNCHANGED <<cartVars, calc, isSupabaseConfigured, checkoutVars, menu,
                 dashboard>>

writeAnswer ==
  /\ table # NotMounted
  /\ \E c \in table.calls, answer \in {"error", "ok"} : writeAnswers(c, answer)

\* the backend answers the select of a call of list(); the create, update or
\* remove that awaited list() returns without error
listAnswers(c, answer) ==
  /\ c.awaiting = "list"
  /\ LET t == IF answer = "rows"
              THEN [table EXCEPT !.data = MenuRows, !.loading = FALSE]
              ELSE [table EXCEPT !.error = BackendErrorMessage, !.data = <<>>,
                                 !.loading = FALSE]
     IN  table' = [t EXCEPT
                     !.calls = @ \ {c},
                     !.returned = IF c.op = "list" THEN @
                                  ELSE returnOf(c.op, "row", Null)]
  /\ UNCHANGED <<cartVars, calc, isSupabaseConfigured, checkoutVars, menu,
                 dashboard>>

listAnswer ==
  /\ table # NotMounted
  /\ \E c \in table.calls, answer \in {"rows", "error"} : listAnswers(c, answer)

ViewsNext ==
  \/ visit
  \/ fetchAnswer
  \/ refresh
  \/ writeCall
  \/ writeAnswer
  \/ listAnswer

ViewsSpec == ViewsInit /\ [][ViewsNext]_vars

\* C26: when the backend is not configured no request is ever issued: list
\* yields an empty data set with no error, create, update and remove return
\* the configuration error without calling the backend, the menu fetch
\* yields no items, and the checkout refuses to submit, whatever the panel
\* holds.
C26_NoRequestWhenNotConfigured ==
  ~isSupabaseConfigured =>
    /\ ~backend.requested
    /\ table # NotMounted =>
         /\ table.calls = {}
         /\ table.data = <<>>
         /\ LET t == list(table, "list", isSupabaseConfigured)
            IN  t.data = <<>> /\ t.error = Null /\ ~t.loading /\ ~requesting(t)
         /\ \A op \in WriteOps :
               LET t == write(table, op, isSupabaseConfigured)
               IN  /\ ~requesting(t)
                   /\ t.returned.error = ConfigErrorMessage
                   /\ op # "remove" => t.returned.data = Null
    /\ menu # NotMounted =>
         menu.items = <<>> /\ menu.error = Null /\ ~menu.loading /\ ~menu.fetching
    /\ \A p \in Panels :
          /\ handleSubmitRefuses(state, p, isSupabaseConfigured)
          /\ submitDisabled(state, p, isSupabaseConfigured)

\* not configured, a cart that could be paid, and MenuManager has called
\* create and then remove: the error was returned and nothing was requested
C26_Witness ==
  /\ ~isSupabaseConfigured
  /\ state.items # <<>>
  /\ selectors(state).totalCents > 0
  /\ table # NotMounted
  /\ table.returned = [error |-> ConfigErrorMessage]
  /\ table.error = ConfigErrorMessage
  /\ ~backend.requested

---------------------------------------------------------------------------
(* SalesDashboard on /sales: the orders of the selected date range          *)

\* what a date input holds: today, another day, or nothing
Today == "2026-01-02"
Dates == {Today, "2026-01-01", ""}

\* startTs and endTs: null for an emptied input
validRange(d) == d.startDate # "" /\ d.endDate # ""

\* the orders the backend holds between two days
OrdersIn(startDate, endDate) == <<startDate, endDate>>

RangeErrorMessage == Str("Please select a valid date range.")

\* useState(todayIso) twice, useState(isSupabaseConfigured), useState(null),
\* useState([]); no fetch yet
FreshDashboard(configured) ==
  [mounted |-> TRUE, startDate |-> Today, endDate |-> Today,
   loading |-> configured, error |-> Null, orders |-> <<>>, fetches |-> {}]

\* the cleanup of the effect: active = false in the fetch it started
superseded(fetches) == {[f EXCEPT !.active = FALSE] : f \in fetches}

\* the effect: fetchOrders() up to its await, for the range of the render
fetchOrders(d, configured) ==
  IF ~configured
  THEN [d EXCEPT !.loading = FALSE, !.orders = <<>>, !.error = Null]
  ELSE IF ~validRange(d)
  THEN [d EXCEPT !.loading = FALSE, !.orders = <<>>,
                 !.error = RangeErrorMessage]
  ELSE [d EXCEPT !.loading = TRUE, !.error = Null,
                 !.fetches = @ \cup {[startDate |-> d.startDate,
                                        endDate |-> d.endDate,
                                        active |-> TRUE]}]

\* fetchOrders() after its await, when the effect is still the current one
applied(d, f, answer) ==
  IF answer = "rows"
  THEN [d EXCEPT !.orders = OrdersIn(f.startDate, f.endDate),
                 !.loading = FALSE,
                 !.fetches = @ \ {f}]
  ELSE [d EXCEPT !.orders = <<>>, !.error = BackendErrorMessage,
                 !.loading = FALSE, !.fetches = @ \ {f}]

answered_ActiveUnchecked(d, f, answer) == applied(d, f, answer)

\* fetchOrders() after its await: if (!active) return, in try, catch and
\* finally
answered(d, f, answer) ==
  IF ~f.active THEN [d EXCEPT !.fetches = @ \ {f}] ELSE applied(d, f, answer)

DashboardInit ==
  /\ \E stored \in {NoKey} : StartsOn(stored, TRUE)
  /\ calc = NoCall
  /\ isSupabaseConfigured \in BOOLEAN
  /\ OnOrdersPage

\* the sidebar link to /sales: SalesDashboard mounts and its effect runs
openSales ==
  /\ route # "sales"
  /\ route' = "sales"
  /\ dashboard' = fetchOrders(FreshDashboard(isSupabaseConfigured),
                              isSupabaseConfigured)
  /\ backend' = [backend EXCEPT !.requested = @ \/ dashboard'.fetches # {}]
  /\ UNCHANGED <<cartVars, calc, isSupabaseConfigured, panel, submissions,
                 feedback, table, menu>>

\* the sidebar link to /orders: SalesDashboard unmounts, the cleanup runs and
\* what is awaited finds active = false
leaveSales ==
  /\ route = "sales"
  /\ route' = "orders"
  /\ dashboard' = NotMounted
  /\ UNCHANGED <<cartVars, calc, isSupabaseConfigured, panel, submissions,
                 backend, feedback, table, menu>>

\* a date input changes: the render with the new range, the cleanup of the
\* effect of the render before, the effect of the new render
selectRange(d) ==
  /\ route = "sales"
  /\ d # dashboard
  /\ Cardinality(dashboard.fetches) < MaxFetches
  /\ dashboard' = fetchOrders([d EXCEPT !.fetches = superseded(@)],
                              isSupabaseConfigured)
  /\ backend' = [backend EXCEPT
                   !.requested = @ \/ (isSupabaseConfigured /\ validRange(d))]
  /\ UNCHANGED <<cartVars, calc, isSupabaseConfigured, route, panel,
                 submissions, feedback, table, menu>>

\* setStartDate(e.target.value)
setStartDate ==
  \E date \in Dates : selectRange([dashboard EXCEPT !.startDate = date])

\* setEndDate(e.target.value)
setEndDate ==
  \E date \in Dates : selectRange([dashboard EXCEPT !.endDate = date])

\* the backend answers a query for orders, in any order
ordersQueryAnswers(f, answer) ==
  /\ dashboard' = answered(dashboard, f, answer)
  /\ UNCHANGED <<cartVars, calc, isSupabaseConfigured, checkoutVars, table,
                 menu>>

queryAnswer ==
  /\ route = "sales"
  /\ \E f \in dashboard.fetches, answer \in {"rows", "error"} :
        ordersQueryAnswers(f, answer)

DashboardNext ==
  \/ openSales
  \/ leaveSales
  \/ setStartDate
  \/ setEndDate
  \/ queryAnswer

DashboardSpec == DashboardInit /\ [][DashboardNext]_vars

\* the fetch of the current effect, if it is still awaiting
activeFetches == {f \in dashboard.fetches : f.active}

\* C30: in the sales dashboard only the fetch for the selected range is
\* active; while it is awaited the dashboard shows loading and no error, and
\* once it has answered (whatever superseded fetches answered, before or
\* after) loading is off and the orders shown are those of the selected
\* range, or none with the error of that range.
C30_LatestRangeWins ==
  route = "sales" =>
    /\ \A f \in activeFetches :
          /\ activeFetches = {f}
          /\ f.startDate = dashboard.startDate
          /\ f.endDate = dashboard.endDate
          /\ dashboard.loading
          /\ dashboard.error = Null
    /\ activeFetches = {} =>
          /\ ~dashboard.loading
          /\ \/ /\ dashboard.orders =
                     OrdersIn(dashboard.startDate, dashboard.endDate)
                /\ dashboard.error = Null
                /\ isSupabaseConfigured
                /\ validRange(dashboard)
             \/ /\ dashboard.orders = <<>>
                /\ dashboard.error =
                     IF ~isSupabaseConfigured THEN Null
                     ELSE IF ~validRange(dashboard) THEN RangeErrorMessage
                     ELSE BackendErrorMessage

\* the range was changed while a fetch was in flight; the fetch for the new
\* range has answered and the superseded one is still to answer
C30_Witness ==
  /\ route = "sales"
  /\ dashboard.startDate # Today
  /\ dashboard.orders = OrdersIn(dashboard.startDate, Today)
  /\ activeFetches = {}
  /\ [startDate |-> Today, endDate |-> Today, active |-> FALSE]
       \in dashboard.fetches

====
